---------------------------- MODULE Spec2Model ----------------------------
(***************************************************************************)
(* A model of js-json (src/index.js): the regular-expression grammar       *)
(* table, the Lexer with its lookahead stash, and the recursive-descent    *)
(* Parser that builds the positional AST.                                  *)
(*                                                                         *)
(* Source text is a sequence of one-character strings.  Offsets are        *)
(* 0-based as in the JavaScript; s[p + 1] is the character at offset p.    *)
(***************************************************************************)
EXTENDS Integers, Sequences, FiniteSets, TLC

VARIABLES
    source,     \* the text given to the Lexer / to parse()
    lexer,      \* the Lexer object: [index, source, input, stash]
    last,       \* the last Lexer call made by the driver and what it returned
    returned,   \* the tokens next() has handed out with done = false, in order
    result,     \* what parse(source) produced: a program or a thrown error
    pc,         \* "ready" before parse(source) is called, "done" after
    given       \* how the text was built (the test fixture), never read by the code

vars == <<source, lexer, last, returned, result, pc, given>>

----------------------------------------------------------------------------
(* Characters *)

\* String.prototype.charCodeAt for the characters the model uses.
charCode(c) ==
    CASE c = "\t" -> 9   [] c = "\n" -> 10  [] c = "\f" -> 12  [] c = "\r" -> 13
      [] c = " "  -> 32  [] c = "\"" -> 34  [] c = "+"  -> 43  [] c = ","  -> 44
      [] c = "-"  -> 45  [] c = "."  -> 46  [] c = "0"  -> 48  [] c = "1"  -> 49
      [] c = "2"  -> 50  [] c = "3"  -> 51  [] c = "4"  -> 52  [] c = "5"  -> 53
      [] c = "6"  -> 54  [] c = "7"  -> 55  [] c = "8"  -> 56  [] c = "9"  -> 57
      [] c = ":"  -> 58  [] c = "@"  -> 64  [] c = "E"  -> 69  [] c = "["  -> 91
      [] c = "\\" -> 92  [] c = "]"  -> 93  [] c = "a"  -> 97  [] c = "b"  -> 98
      [] c = "c"  -> 99  [] c = "e"  -> 101 [] c = "f"  -> 102 [] c = "l"  -> 108
      [] c = "n"  -> 110 [] c = "r"  -> 114 [] c = "s"  -> 115 [] c = "t"  -> 116
      [] c = "u"  -> 117 [] c = "{"  -> 123 [] c = "}"  -> 125

\* S_DIGIT = '[0-9]'
S_DIGIT == {"0", "1", "2", "3", "4", "5", "6", "7", "8", "9"}

\* S_ONENINE = '[1-9]'
S_ONENINE == S_DIGIT \ {"0"}

\* [0-9a-fA-F] of S_ESCAPE, over the model's characters
HexDigit == S_DIGIT \cup {"a", "b", "c", "e", "f", "E"}

\* the single-character alternatives of S_ESCAPE: [\\"bfnrt\n\r]
EscapeLetter == {"\\", "\"", "b", "f", "n", "r", "t", "\n", "\r"}

\* S_PUNC = '[":,\[\]\{\}]'
S_PUNC == {"\"", ":", ",", "[", "]", "{", "}"}

----------------------------------------------------------------------------
(* The grammar's regular expressions.  Each Match operator takes the text  *)
(* s and an offset p and returns the offset just after the match when the  *)
(* pattern matches at p, and NoMatch otherwise.  Quantifiers are greedy;   *)
(* no pattern below needs backtracking into an earlier repetition, since   *)
(* whatever follows a repetition is optional or starts with a character    *)
(* the repetition cannot consume.                                          *)

\* String.prototype.match returned null
NoMatch == -1

At(s, p) == IF p >= 0 /\ p < Len(s) THEN s[p + 1] ELSE ""

RECURSIVE DigitsEnd(_, _)
DigitsEnd(s, p) == IF At(s, p) \in S_DIGIT THEN DigitsEnd(s, p + 1) ELSE p

\* S_DIGITS = '[0-9]+'
MatchDIGITS(s, p) == IF At(s, p) \in S_DIGIT THEN DigitsEnd(s, p + 1) ELSE NoMatch

\* an optional group: the group's end when it matched, else the offset it was tried at
Optional(m, p) == IF m = NoMatch THEN p ELSE m

\* S_INT with its alternatives swapped: -?(?:[0-9]|(?:[1-9][0-9]+))
MatchINT_SingleDigitFirst(s, p) ==
    LET q == IF At(s, p) = "-" THEN p + 1 ELSE p
    IN  IF At(s, q) \in S_DIGIT THEN q + 1 ELSE NoMatch

\* S_INT = -?(?:(?:[1-9][0-9]+)|[0-9])
MatchINT(s, p) ==
    LET q == IF At(s, p) = "-" THEN p + 1 ELSE p
    IN  IF At(s, q) \in S_ONENINE /\ MatchDIGITS(s, q + 1) # NoMatch
        THEN MatchDIGITS(s, q + 1)
        ELSE IF At(s, q) \in S_DIGIT THEN q + 1 ELSE NoMatch

\* S_FRAC = (?:\.[0-9]+)
MatchFRAC(s, p) == IF At(s, p) = "." THEN MatchDIGITS(s, p + 1) ELSE NoMatch

\* S_EXP = (?:[eE][+-][0-9]+)
MatchEXP(s, p) ==
    IF At(s, p) \in {"e", "E"} /\ At(s, p + 1) \in {"+", "-"}
    THEN MatchDIGITS(s, p + 2)
    ELSE NoMatch

\* S_NUMBER = (?:FRAC EXP?|INT FRAC? EXP?)
MatchNUMBER(s, p) ==
    LET f == MatchFRAC(s, p)
        i == MatchINT(s, p)
        g == Optional(MatchFRAC(s, i), i)
    IN  IF f # NoMatch THEN Optional(MatchEXP(s, f), f)
        ELSE IF i # NoMatch THEN Optional(MatchEXP(s, g), g)
        ELSE NoMatch

\* S_ESCAPE = (?:[\\"bfnrt\n\r]|u[0-9a-fA-F]{4})
MatchESCAPE(s, p) ==
    IF At(s, p) \in EscapeLetter THEN p + 1
    ELSE IF /\ At(s, p) = "u"
            /\ \A k \in 1..4 : At(s, p + k) \in HexDigit
         THEN p + 5
         ELSE NoMatch

\* S_CHAR with a class that shuts out only the quote and the backslash
MatchCHAR_AllowsControl(s, p) ==
    IF p >= Len(s) THEN NoMatch
    ELSE IF At(s, p) = "\\" THEN MatchESCAPE(s, p + 1)
    ELSE IF At(s, p) \in {"\"", "\\"} THEN NoMatch
    ELSE p + 1

\* S_CHAR = (?:\\ESCAPE|[^\u0000-\u001fb"\\\r\n])
MatchCHAR(s, p) ==
    IF p >= Len(s) THEN NoMatch
    ELSE IF At(s, p) = "\\" THEN MatchESCAPE(s, p + 1)
    ELSE IF \/ charCode(At(s, p)) <= 31
            \/ At(s, p) \in {"b", "\"", "\\", "\r", "\n"}
         THEN NoMatch
         ELSE p + 1

RECURSIVE CharsEnd(_, _)
CharsEnd(s, p) ==
    IF MatchCHAR(s, p) # NoMatch THEN CharsEnd(s, MatchCHAR(s, p)) ELSE p

\* S_STRING = "CHAR*"
MatchSTRING(s, p) ==
    IF At(s, p) = "\"" /\ At(s, CharsEnd(s, p + 1)) = "\""
    THEN CharsEnd(s, p + 1) + 1
    ELSE NoMatch

MatchPUNC(s, p) == IF At(s, p) \in S_PUNC THEN p + 1 ELSE NoMatch

\* a literal word at offset p
MatchWord(s, p, w) ==
    IF \A k \in 1..Len(w) : At(s, p + k - 1) = w[k] THEN p + Len(w) ELSE NoMatch

\* S_BOOL = '(?:true|false)'
MatchBOOL(s, p) ==
    IF MatchWord(s, p, <<"t", "r", "u", "e">>) # NoMatch
    THEN MatchWord(s, p, <<"t", "r", "u", "e">>)
    ELSE MatchWord(s, p, <<"f", "a", "l", "s", "e">>)

\* S_NULL = 'null'
MatchNULL(s, p) == MatchWord(s, p, <<"n", "u", "l", "l">>)

TOKEN_STRING == "string"
TOKEN_PUNCTUATOR == "punctuator"
TOKEN_NUMBER == "number"
TOKEN_BOOLEAN == "boolean"
TOKEN_NULL == "null"

\* the grammar table, in its order: each type with its regex, anchored with ^
grammar == <<TOKEN_STRING, TOKEN_NUMBER, TOKEN_PUNCTUATOR, TOKEN_BOOLEAN, TOKEN_NULL>>

regexMatch(type, input) ==
    CASE type = TOKEN_STRING     -> MatchSTRING(input, 0)
      [] type = TOKEN_NUMBER     -> MatchNUMBER(input, 0)
      [] type = TOKEN_PUNCTUATOR -> MatchPUNC(input, 0)
      [] type = TOKEN_BOOLEAN    -> MatchBOOL(input, 0)
      [] type = TOKEN_NULL       -> MatchNULL(input, 0)

\* class Token
Token(type, value, start) ==
    [type |-> type, value |-> value, start |-> start, end |-> start + Len(value)]


----------------------------------------------------------------------------
(* JavaScript values that are not tokens or offsets *)

\* null, where a token is expected
null == [js |-> "null"]

\* undefined, where a token is expected
undefined == [js |-> "undefined"]

\* undefined, where an offset is expected: a parameter that was not passed
undefinedOffset == -1

\* What a call does: it returns ret, or it throws err; lx is the Lexer after it.
NoError == "none"
Return(lx, ret) == [lx |-> lx, ret |-> ret, err |-> NoError]
Throw(lx, err) == [lx |-> lx, ret |-> undefined, err |-> err]
Threw(r) == r.err # NoError

\* Sequencing of calls: an exception thrown by the call r propagates, and
\* otherwise the rest of the caller, F, runs on what r returned.
Bind(r, F(_)) == IF Threw(r) THEN r ELSE F(r)

\* const v = ...; the rest of the body, F, uses v
Const(v, F(_)) == F(v)

\* The errors, by the place that raises them.
ErrLookaheadIndex == "Lookahead index can not be less than 0"
ErrLex == "Unexpected token (lex)"
ErrExpected == "Expected ..., got ..."
ErrEndOfInput == "Unexpected end of input"
ErrUnexpectedToken == "Unexpected token (parseValue)"
ErrTypeError == "TypeError: cannot read properties of null or undefined"
ErrReferenceError == "ReferenceError: value is not defined"

----------------------------------------------------------------------------
(* class Lexer *)

\* constructor(input)
NewLexer(input) == [index |-> 0, source |-> input, input |-> input, stash |-> <<>>]

\* hasEnded()
hasEnded(lx) == lx.index >= Len(lx.source)

\* String.prototype.substr(start) for start >= 0
substr(s, start) == SubSeq(s, start + 1, Len(s))

\* forward(times)
forward(lx, times) ==
    LET start == lx.index
        newStart == IF start + times > 0 THEN start + times ELSE 0
    IN  [lx EXCEPT !.index = lx.index + times, !.input = substr(lx.source, newStart)]

\* the for loop of skipWhitespace(): the offset i it stops at
RECURSIVE SkipLoop(_, _)
SkipLoop(src, i) ==
    IF i >= Len(src) THEN i
    ELSE LET char == charCode(At(src, i))
         IN  IF char = 13
             THEN IF i + 1 < Len(src) /\ charCode(At(src, i + 1)) = 10
                  THEN SkipLoop(src, i + 2)
                  ELSE SkipLoop(src, i + 1)
             ELSE IF char >= 0 /\ char <= 32
                  THEN SkipLoop(src, i + 1)
                  ELSE i

\* skipWhitespace()
skipWhitespace(lx) == forward(lx, SkipLoop(lx.source, lx.index) - lx.index)

\* the for loop of lex() over the grammar table, from entry k on: the first
\* entry whose regex matches the remaining input makes the token
RECURSIVE LexLoop(_, _)
LexLoop(lx, k) ==
    IF k > Len(grammar) THEN Throw(lx, ErrLex)
    ELSE Const(regexMatch(grammar[k], lx.input), LAMBDA match :
           IF match # NoMatch
           THEN Const(Token(grammar[k], SubSeq(lx.input, 1, match), lx.index), LAMBDA token :
                  Return(skipWhitespace(forward(lx, Len(token.value))), token))
           ELSE LexLoop(lx, k + 1))

\* lex()
lex(lx) == LexLoop(skipWhitespace(lx), 1)

\* the while loop of lookahead(index): times-- > -1
RECURSIVE LookaheadLoop(_, _)
LookaheadLoop(lx, times) ==
    IF times > -1
    THEN IF hasEnded(lx) THEN Return(lx, undefined)
         ELSE Bind(lex(lx), LAMBDA r :
                LookaheadLoop([r.lx EXCEPT !.stash = Append(@, r.ret)], times - 1))
    ELSE Return(lx, undefined)

\* lookahead(index)
lookahead(lx, index) ==
    IF index < 0 THEN Throw(lx, ErrLookaheadIndex)
    ELSE Bind(LookaheadLoop(lx, index), LAMBDA r :
           IF index < Len(r.lx.stash)
           THEN Return(r.lx, r.lx.stash[index + 1])
           ELSE Return(r.lx, null))

\* peek()
peek(lx) == lookahead(lx, 0)

\* next() that forgets the stash and always lexes a fresh token
next_ForgetsStash(lx) ==
    IF hasEnded(lx)
    THEN Return(lx, [done |-> TRUE, value |-> undefined])
    ELSE Bind(lex(lx), LAMBDA r : Return(r.lx, [done |-> FALSE, value |-> r.ret]))

\* next()
next(lx) ==
    IF Len(lx.stash) > 0
    THEN Return([lx EXCEPT !.stash = Tail(@)], [done |-> FALSE, value |-> Head(lx.stash)])
    ELSE IF hasEnded(lx)
         THEN Return(lx, [done |-> TRUE, value |-> undefined])
         ELSE Bind(lex(lx), LAMBDA r : Return(r.lx, [done |-> FALSE, value |-> r.ret]))

\* Lexer.all(input): the for...of loop calls next() until done
RECURSIVE AllLoop(_, _)
AllLoop(lx, tokens) ==
    Bind(next(lx), LAMBDA r :
      IF r.ret.done THEN Return(r.lx, tokens)
      ELSE AllLoop(r.lx, Append(tokens, r.ret.value)))

all(input) == AllLoop(NewLexer(input), <<>>)

----------------------------------------------------------------------------
(* The AST node classes *)

BooleanLiteral(value, start, end) ==
    [type |-> "BooleanLiteral", value |-> value, start |-> start, end |-> end]

StringLiteral(value, start, end) ==
    [type |-> "StringLiteral", value |-> value, start |-> start, end |-> end]

NullLiteral(start, end) ==
    [type |-> "NullLiteral", start |-> start, end |-> end]

NumericLiteral(value, start, end) ==
    [type |-> "NumericLiteral", value |-> value, start |-> start, end |-> end]

ArrayLiteral(elements, start, end) ==
    [type |-> "ArrayLiteral", elements |-> elements, start |-> start, end |-> end]

ObjectLiteral(properties, start, end) ==
    [type |-> "ObjectLiteral", properties |-> properties, start |-> start, end |-> end]

\* a Property that keeps its key only
Property_KeyOnly(key, value, start, end) == [type |-> "Property", key |-> key]

\* the constructor takes value and never stores it
Property(key, value, start, end) ==
    [type |-> "Property", key |-> key, start |-> start, end |-> end]

----------------------------------------------------------------------------
(* class Parser, over the state of its Lexer *)

\* ensure(...values): when no value matches, building the message reads
\* token.value, which throws for an undefined token before error() is reached
ensure(lx, values) ==
    Bind(next(lx), LAMBDA r :
      Const(r.ret.value, LAMBDA token :
        IF token # undefined /\ token # null /\ token.value \in values
        THEN Return(r.lx, token)
        ELSE IF token = undefined THEN Throw(r.lx, ErrTypeError)
        ELSE Throw(r.lx, ErrExpected)))

\* ensureType(...types): when no type matches, building the message reads
\* token.value and then the undeclared name value, so error() is never reached
ensureType(lx, types) ==
    Bind(next(lx), LAMBDA r :
      Const(r.ret.value, LAMBDA token :
        IF token # undefined /\ token # null /\ token.type \in types
        THEN Return(r.lx, token)
        ELSE IF token = undefined THEN Throw(r.lx, ErrTypeError)
        ELSE Throw(r.lx, ErrReferenceError)))

\* is(value): this.lexer.peek().value === value
is(lx, value) ==
    Bind(peek(lx), LAMBDA r :
      IF r.ret = null THEN Throw(r.lx, ErrTypeError)
      ELSE Return(r.lx, r.ret.value = value))

\* the literal node parseValue() builds for a token, or null
LiteralNode(token) ==
    IF token.type = TOKEN_BOOLEAN
    THEN BooleanLiteral(token.value, token.start, token.end)
    ELSE IF token.type = TOKEN_STRING
    THEN StringLiteral(token.value, token.start, token.end)
    ELSE IF token.type = TOKEN_NUMBER
    THEN NumericLiteral(token.value, token.start, token.end)
    ELSE IF token.type = TOKEN_NULL
    THEN NullLiteral(token.start, undefinedOffset)
    ELSE null

RECURSIVE parseValue(_)
RECURSIVE parseObjectLiteral(_)
RECURSIVE parseArrayLiteral(_)
RECURSIVE ObjectLoop(_, _)
RECURSIVE ArrayLoop(_, _)

\* parseValue()
parseValue(lx) ==
    Bind(peek(lx), LAMBDA p :
      IF p.ret = null THEN Throw(p.lx, ErrEndOfInput)
      ELSE Bind(is(p.lx, <<"{">>), LAMBDA isObject :
        IF isObject.ret THEN parseObjectLiteral(isObject.lx)
        ELSE Bind(is(isObject.lx, <<"[">>), LAMBDA isArray :
          IF isArray.ret THEN parseArrayLiteral(isArray.lx)
          ELSE Const(LiteralNode(p.ret), LAMBDA node :
            IF node # null
            THEN Bind(next(isArray.lx), LAMBDA n : Return(n.lx, node))
            ELSE Throw(isArray.lx, ErrUnexpectedToken)))))

\* the object loop replacing an earlier property that has the same key
ObjectLoop_LastKeyWins(lx, properties) ==
    Bind(is(lx, <<"}">>), LAMBDA closed :
      IF closed.ret THEN Return(closed.lx, properties)
      ELSE Bind(ensureType(closed.lx, {TOKEN_STRING, TOKEN_NUMBER}), LAMBDA key :
        Bind(ensure(key.lx, {<<":">>}), LAMBDA colon :
          Bind(parseValue(colon.lx), LAMBDA value :
            Const(Append(SelectSeq(properties, LAMBDA p : p.key.value # key.ret.value),
                         Property(key.ret, value.ret, key.ret.start, value.ret.end)),
                  LAMBDA pushed :
              Bind(is(value.lx, <<"}">>), LAMBDA closing :
                IF closing.ret THEN ObjectLoop(closing.lx, pushed)
                ELSE Bind(ensure(closing.lx, {<<",">>}), LAMBDA comma :
                       ObjectLoop(comma.lx, pushed))))))))

\* the while loop of parseObjectLiteral(): returns the properties
ObjectLoop(lx, properties) ==
    Bind(is(lx, <<"}">>), LAMBDA closed :
      IF closed.ret THEN Return(closed.lx, properties)
      ELSE Bind(ensureType(closed.lx, {TOKEN_STRING, TOKEN_NUMBER}), LAMBDA key :
        Bind(ensure(key.lx, {<<":">>}), LAMBDA colon :
          Bind(parseValue(colon.lx), LAMBDA value :
            Const(Append(properties,
                         Property(key.ret, value.ret, key.ret.start, value.ret.end)),
                  LAMBDA pushed :
              Bind(is(value.lx, <<"}">>), LAMBDA closing :
                IF closing.ret THEN ObjectLoop(closing.lx, pushed)
                ELSE Bind(ensure(closing.lx, {<<",">>}), LAMBDA comma :
                       ObjectLoop(comma.lx, pushed))))))))

\* parseObjectLiteral()
parseObjectLiteral(lx) ==
    Bind(ensure(lx, {<<"{">>}), LAMBDA startToken :
      Bind(ObjectLoop(startToken.lx, <<>>), LAMBDA loop :
        Bind(ensure(loop.lx, {<<"}">>}), LAMBDA endToken :
          Return(endToken.lx,
                 ObjectLiteral(loop.ret, startToken.ret.start, endToken.ret.end)))))

\* the array loop consuming a comma only when one is there
ArrayLoop_CommaOptional(lx, elements) ==
    Bind(is(lx, <<"]">>), LAMBDA closed :
      IF closed.ret THEN Return(closed.lx, elements)
      ELSE Bind(parseValue(closed.lx), LAMBDA value :
        Const(Append(elements, value.ret), LAMBDA pushed :
          Bind(is(value.lx, <<",">>), LAMBDA comma :
            IF comma.ret
            THEN Bind(next(comma.lx), LAMBDA n : ArrayLoop(n.lx, pushed))
            ELSE ArrayLoop(comma.lx, pushed)))))

\* the while loop of parseArrayLiteral(): returns the elements
ArrayLoop(lx, elements) ==
    Bind(is(lx, <<"]">>), LAMBDA closed :
      IF closed.ret THEN Return(closed.lx, elements)
      ELSE Bind(parseValue(closed.lx), LAMBDA value :
        Const(Append(elements, value.ret), LAMBDA pushed :
          Bind(is(value.lx, <<"]">>), LAMBDA closing :
            IF closing.ret THEN ArrayLoop(closing.lx, pushed)
            ELSE Bind(ensure(closing.lx, {<<",">>}), LAMBDA comma :
                   ArrayLoop(comma.lx, pushed))))))

\* parseArrayLiteral()
parseArrayLiteral(lx) ==
    Bind(ensure(lx, {<<"[">>}), LAMBDA startToken :
      Bind(ArrayLoop(startToken.lx, <<>>), LAMBDA loop :
        Bind(ensure(loop.lx, {<<"]">>}), LAMBDA endToken :
          Return(endToken.lx,
                 ArrayLiteral(loop.ret, startToken.ret.start, endToken.ret.end)))))

\* parse(input): new Parser(input).parse()
parse(input) ==
    Bind(parseValue(NewLexer(input)), LAMBDA r : Return(r.lx, [program |-> r.ret]))

----------------------------------------------------------------------------
(* Building source texts *)

RECURSIVE Concat(_)
Concat(ss) == IF ss = <<>> THEN <<>> ELSE Head(ss) \o Concat(Tail(ss))

\* the pieces joined with sep between neighbours
RECURSIVE Join(_, _)
Join(ss, sep) ==
    IF ss = <<>> THEN <<>>
    ELSE IF Len(ss) = 1 THEN Head(ss)
    ELSE Head(ss) \o sep \o Join(Tail(ss), sep)

\* the sequences over S of length lo..hi
SeqsOf(S, lo, hi) == UNION {[1..k -> S] : k \in lo..hi}

NoCall == [op |-> "none", arg |-> 0, ret |-> undefined, err |-> NoError,
           before |-> NewLexer(<<>>)]
NoResult == [status |-> "none"]

----------------------------------------------------------------------------
(* The Lexer driven call by call: any interleaving of peek(), lookahead(n) *)
(* and next() on one Lexer over a text of whitespace-separated lexemes.    *)

MaxToks == 3
MaxAhead == 2

JUNK == "junk"

\* one lexeme of each token type, the lone quote punctuator, and a character
\* no grammar entry matches
LexPieces ==
    { [type |-> TOKEN_NUMBER, value |-> <<"1", "2">>],
      [type |-> TOKEN_STRING, value |-> <<"\"", "a", "\"">>],
      [type |-> TOKEN_PUNCTUATOR, value |-> <<"[">>],
      [type |-> TOKEN_PUNCTUATOR, value |-> <<"\"">>],
      [type |-> TOKEN_BOOLEAN, value |-> <<"t", "r", "u", "e">>],
      [type |-> TOKEN_NULL, value |-> <<"n", "u", "l", "l">>],
      [type |-> JUNK, value |-> <<"@">>] }

Separators == { <<" ">>, <<"\r", "\n">> }

PieceValues(pieces) == [k \in 1..Len(pieces) |-> pieces[k].value]

InitLexer ==
    /\ \E pieces \in SeqsOf(LexPieces, 1, MaxToks), sep \in Separators :
          /\ given = [pieces |-> pieces, sep |-> sep]
          /\ source = Join(PieceValues(pieces), sep)
    /\ lexer = NewLexer(source)
    /\ last = NoCall
    /\ returned = <<>>
    /\ result = NoResult
    /\ pc = "lexer"

\* the driver makes one call; a throw keeps whatever the call had changed
Call(op, arg, r) ==
    /\ pc = "lexer"
    /\ lexer' = r.lx
    /\ last' = [op |-> op, arg |-> arg, ret |-> r.ret, err |-> r.err, before |-> lexer]
    /\ returned' = IF op = "next" /\ ~Threw(r) /\ ~r.ret.done
                   THEN Append(returned, r.ret.value)
                   ELSE returned
    /\ UNCHANGED <<source, result, pc, given>>

Peek == Call("peek", 0, peek(lexer))

Lookahead(n) == Call("lookahead", n, lookahead(lexer, n))

LookaheadNegative == Call("lookahead", -1, lookahead(lexer, -1))

NextToken == Call("next", 0, next(lexer))

NextLexer ==
    \/ Peek
    \/ \E n \in 0..MaxAhead : Lookahead(n)
    \/ LookaheadNegative
    \/ NextToken

SpecLexer == InitLexer /\ [][NextLexer]_vars

----------------------------------------------------------------------------
(* parse(source) called once on a text the fixture built *)

\* a Parser has been constructed over the text; parse() is yet to be called
ReadyToParse(text) ==
    /\ source = text
    /\ lexer = NewLexer(text)
    /\ last = NoCall
    /\ returned = <<>>
    /\ result = NoResult
    /\ pc = "ready"

\* what the caller of parse() gets: the returned object or the thrown error
Outcome(r) ==
    IF Threw(r) THEN [status |-> "thrown", error |-> r.err]
    ELSE [status |-> "returned", value |-> r.ret]

Finish(r) ==
    /\ lexer' = r.lx
    /\ result' = Outcome(r)
    /\ pc' = "done"
    /\ UNCHANGED <<source, last, returned, given>>

Parse == pc = "ready" /\ Finish(parse(source))

NextParse == Parse

Returned == pc = "done" /\ result.status = "returned"
Thrown == pc = "done" /\ result.status = "thrown"

----------------------------------------------------------------------------
(* Texts derived from the number grammar *)

MaxDigits == 2

FixtureDigits == {"0", "7"}

DigitRuns(n) == SeqsOf(FixtureDigits, 1, n)

\* integer: a single digit, or a nonzero digit followed by one or more digits
IntegerTexts ==
    LET unsigned == {<<d>> : d \in FixtureDigits}
                    \cup {<<d>> \o run : d \in FixtureDigits \ {"0"},
                                         run \in DigitRuns(MaxDigits - 1)}
    IN  unsigned \cup {<<"-">> \o u : u \in unsigned}

FractionTexts == {<<".">> \o run : run \in DigitRuns(MaxDigits)}

ExponentTexts ==
    {<<e, sign>> \o run : e \in {"e", "E"}, sign \in {"+", "-"}, run \in DigitRuns(MaxDigits)}

NumberTexts ==
    {f \o x : f \in FractionTexts, x \in ExponentTexts \cup {<<>>}}
    \cup {i \o f \o x : i \in IntegerTexts, f \in FractionTexts \cup {<<>>},
                        x \in ExponentTexts \cup {<<>>}}

InitNumber ==
    /\ \E text \in NumberTexts : given = [text |-> text] /\ ReadyToParse(text)

SpecNumber == InitNumber /\ [][NextParse]_vars

----------------------------------------------------------------------------
(* Double-quoted texts: an opening quote, a body of up to MaxBody          *)
(* characters, a closing quote; alone or as the only element of an array.  *)

MaxBody == 3

BodyChars == {"a", " ", "\n", "\r", "\\", "\""}

InitString ==
    /\ \E body \in SeqsOf(BodyChars, 0, MaxBody), wrap \in {"bare", "array"} :
          /\ given = [body |-> body, wrap |-> wrap]
          /\ ReadyToParse(IF wrap = "bare"
                          THEN <<"\"">> \o body \o <<"\"">>
                          ELSE <<"[", "\"">> \o body \o <<"\"", "]">>)

SpecString == InitString /\ [][NextParse]_vars

----------------------------------------------------------------------------
(* Texts built from a value.  A value is written down as its outline: the  *)
(* sequence of its literals, keys and brackets in source order, without    *)
(* commas and colons.  Rendering an outline inserts a colon after each key *)
(* and commas between members, the way the chosen comma style says.        *)

MaxNodes == 3

LeafSyms == {"num", "str", "null", "bool"}
KeySyms == {"key-str", "key-num"}
Openers == {"[", "{"}
Closers == {"]", "}"}

\* the lexeme each outline symbol is written as
LexemeOf(sym) ==
    CASE sym = "num" -> <<"1">>
      [] sym = "str" -> <<"\"", "a", "\"">>
      [] sym = "null" -> <<"n", "u", "l", "l">>
      [] sym = "bool" -> <<"t", "r", "u", "e">>
      [] sym = "key-str" -> <<"\"", "a", "\"">>
      [] sym = "key-num" -> <<"1">>
      [] OTHER -> <<sym>>

\* the outlines of the values with exactly n nodes (literals, arrays, objects)
RECURSIVE OutlinesOfSize(_)
RECURSIVE ElementRuns(_)
RECURSIVE PairRuns(_)

\* the runs of array elements with m nodes in all
ElementRuns(m) ==
    IF m = 0 THEN {<<>>}
    ELSE UNION {{v \o rest : v \in OutlinesOfSize(n), rest \in ElementRuns(m - n)} : n \in 1..m}

\* the runs of key-value pairs with m nodes in all
PairRuns(m) ==
    IF m = 0 THEN {<<>>}
    ELSE UNION {{<<k>> \o v \o rest : k \in KeySyms, v \in OutlinesOfSize(n),
                                       rest \in PairRuns(m - n)} : n \in 1..m}

OutlinesOfSize(n) ==
    (IF n = 1 THEN {<<l>> : l \in LeafSyms} ELSE {})
    \cup {<<"[">> \o run \o <<"]">> : run \in ElementRuns(n - 1)}
    \cup {<<"{">> \o run \o <<"}">> : run \in PairRuns(n - 1)}

Outlines == UNION {OutlinesOfSize(n) : n \in 1..MaxNodes}

ContainerOutlines == {o \in Outlines : Head(o) \in Openers}

\* an outline symbol after which a member of a container is complete
EndsMember(sym) == sym \in LeafSyms \cup Closers

CommaStyles == {"plain", "trailing", "leading", "double", "two-trailing", "missing"}

\* what is written between two neighbouring outline symbols
Between(prev, cur, style) ==
    IF prev \in KeySyms THEN <<<<":">>>>
    ELSE IF prev \in Openers
         THEN IF style = "leading" THEN <<<<",">>>> ELSE <<>>
    ELSE IF cur \in Closers
         THEN IF style = "trailing" THEN <<<<",">>>>
              ELSE IF style = "two-trailing" THEN <<<<",">>, <<",">>>>
              ELSE <<>>
    ELSE IF style = "double" THEN <<<<",">>, <<",">>>>
    ELSE IF style = "missing" THEN <<<<" ">>>>
    ELSE <<<<",">>>>

\* the lexemes of the rendered text, in order; sym is the outline position a
\* lexeme stands for, and 0 for an inserted comma, colon or blank
RECURSIVE RenderFrom(_, _, _)
RenderFrom(outline, style, k) ==
    IF k > Len(outline) THEN <<>>
    ELSE (IF k = 1 THEN <<>>
          ELSE [q \in 1..Len(Between(outline[k - 1], outline[k], style)) |->
                   [text |-> Between(outline[k - 1], outline[k], style)[q], sym |-> 0]])
         \o <<[text |-> LexemeOf(outline[k]), sym |-> k]>>
         \o RenderFrom(outline, style, k + 1)

Render(outline, style) == RenderFrom(outline, style, 1)

Texts(pieces) == [q \in 1..Len(pieces) |-> pieces[q].text]

Blanks == {<<>>, <<" ">>}

\* well-formed texts: members separated by single commas, with or without a
\* trailing comma, lexemes packed or separated by a blank
InitWellFormed ==
    /\ \E outline \in Outlines, style \in {"plain", "trailing"}, ws \in Blanks :
          /\ given = [outline |-> outline, style |-> style, ws |-> ws,
                      pieces |-> Render(outline, style)]
          /\ ReadyToParse(Join(Texts(Render(outline, style)), ws))

SpecWellFormed == InitWellFormed /\ [][NextParse]_vars

\* arrays and objects under every comma style
InitCommas ==
    /\ \E outline \in ContainerOutlines, style \in CommaStyles :
          /\ given = [outline |-> outline, style |-> style, ws |-> <<>>,
                      pieces |-> Render(outline, style)]
          /\ ReadyToParse(Concat(Texts(Render(outline, style))))

SpecCommas == InitCommas /\ [][NextParse]_vars

MaxSuffix == 2

SuffixLexemes == {<<"@">>, <<"1">>, <<"]">>, <<"\"">>}

\* a well-formed value, a blank, and further blank-separated lexemes
InitTrailing ==
    /\ \E outline \in Outlines, suffix \in SeqsOf(SuffixLexemes, 1, MaxSuffix) :
          /\ given = [outline |-> outline, style |-> "plain", ws |-> <<>>,
                      pieces |-> Render(outline, "plain"), suffix |-> suffix]
          /\ ReadyToParse(Concat(Texts(Render(outline, "plain")))
                          \o <<" ">> \o Join(suffix, <<" ">>))

SpecTrailing == InitTrailing /\ [][NextParse]_vars

\* an array or object text cut after any lexeme but its last: it ends inside
\* the unclosed container
InitUnclosed ==
    /\ \E outline \in ContainerOutlines, ws \in Blanks :
       \E keep \in 1..(Len(Render(outline, "plain")) - 1) :
          /\ given = [outline |-> outline, style |-> "plain", ws |-> ws,
                      pieces |-> SubSeq(Render(outline, "plain"), 1, keep)]
          /\ ReadyToParse(Join(Texts(SubSeq(Render(outline, "plain"), 1, keep)), ws))

SpecUnclosed == InitUnclosed /\ [][NextParse]_vars

----------------------------------------------------------------------------
(* Claims about the Lexer *)

\* the offset at which the fixture put its k-th lexeme
RECURSIVE PieceStart(_)
PieceStart(k) ==
    IF k = 1 THEN 0
    ELSE PieceStart(k - 1) + Len(given.pieces[k - 1].value) + Len(given.sep)

\* the tokens the fixture wrote, t0..tk
WrittenTokens ==
    [k \in 1..Len(given.pieces) |->
        Token(given.pieces[k].type, given.pieces[k].value, PieceStart(k))]

AllPiecesValid == \A k \in 1..Len(given.pieces) : given.pieces[k].type # JUNK

\* With j tokens consumed so far and the token sequence toks: next() has
\* handed out the first j of toks, in order; a next() that reports done comes
\* only after all of toks; and a peek() or lookahead(n) returns toks' entry
\* j + n, or null beyond the end.  No call throws.
NonConsuming(toks) ==
    LET j == Len(returned)
    IN  /\ j <= Len(toks)
        /\ returned = SubSeq(toks, 1, j)
        /\ (last.op # "none" /\ last.arg >= 0) => last.err = NoError
        /\ (last.op = "next" /\ last.err = NoError) =>
              IF last.ret.done
              THEN j = Len(toks) /\ last.ret.value = undefined
              ELSE j >= 1 /\ last.ret.value = toks[j]
        /\ (last.op \in {"peek", "lookahead"} /\ last.arg >= 0 /\ last.err = NoError) =>
              last.ret = IF j + last.arg < Len(toks) THEN toks[j + last.arg + 1] ELSE null

\* C2 as stated: for every source written as whitespace-separated valid
\* tokens t0..tk, under every interleaving of peek(), lookahead(n) and next(),
\* next() returns t0..tk in order, each once, then done; lookahead(n) after j
\* consumed tokens returns t(j+n) or null.
C2_AsStated == (pc = "lexer" /\ AllPiecesValid) => NonConsuming(WrittenTokens)

\* C2 amended: the same, for every source that a Lexer driven by next() alone
\* (Lexer.all) tokenizes without error, with t0..tk the tokens it yields.
C2_PeekAndLookaheadNeverConsume ==
    (pc = "lexer" /\ ~Threw(all(source))) => NonConsuming(all(source).ret)

\* C2 witness: after lookaheads and a peek, next() has handed out all three
\* tokens of a three-token text and then reported done.
C2_Witness ==
    /\ pc = "lexer"
    /\ ~Threw(all(source))
    /\ Len(returned) = 3
    /\ last.op = "next" /\ last.err = NoError /\ last.ret.done
    /\ last.before.index = Len(source)

\* C8 as stated: a lookahead(n) made when the stash already holds more than
\* n tokens lexes nothing: it cannot fail and leaves the Lexer as it was.
C8_StashFilledOnDemand ==
    ( /\ pc = "lexer"
      /\ last.op \in {"peek", "lookahead"}
      /\ last.arg >= 0
      /\ Len(last.before.stash) > last.arg )
    => (last.err = NoError /\ lexer = last.before)

----------------------------------------------------------------------------
(* Claims about literals *)

\* C3: for every text derivable from the number grammar, parse(text).program
\* is a NumericLiteral whose value is the text itself, spanning 0..length.
C3_NumberLexemePreserved ==
    pc = "done" =>
        /\ result.status = "returned"
        /\ result.value.program =
              [type |-> "NumericLiteral", value |-> given.text,
               start |-> 0, end |-> Len(given.text)]

\* C3 witness: a negative integer with a fraction and an exponent was parsed.
C3_Witness ==
    /\ Returned
    /\ Head(source) = "-"
    /\ \E i \in 1..Len(source) : source[i] = "."
    /\ \E i \in 1..Len(source) : source[i] = "E"
    /\ result.value.program.value = source

\* Reading a quoted body left to right, a backslash taking the character
\* after it: a raw line feed or carriage return comes before the first
\* unescaped quote.  A body that ends on a lone backslash escapes the quote
\* the fixture closes it with: the closing quote is then the next one, if any.
RECURSIVE RawNewlineBeforeClose(_)
RawNewlineBeforeClose(body) ==
    IF body = <<>> THEN FALSE
    ELSE IF Head(body) \in {"\n", "\r"} THEN TRUE
    ELSE IF Head(body) = "\"" THEN FALSE
    ELSE IF Head(body) = "\\"
         THEN IF Len(body) = 1 THEN FALSE ELSE RawNewlineBeforeClose(Tail(Tail(body)))
         ELSE RawNewlineBeforeClose(Tail(body))

\* the body is made of plain characters and backslash-line-feed pairs only
RECURSIVE PlainWithContinuations(_)
PlainWithContinuations(body) ==
    IF body = <<>> THEN TRUE
    ELSE IF Head(body) \in {"a", " "} THEN PlainWithContinuations(Tail(body))
    ELSE IF Head(body) = "\\"
         THEN Len(body) >= 2 /\ body[2] = "\n" /\ PlainWithContinuations(Tail(Tail(body)))
         ELSE FALSE

HasContinuation(body) == \E i \in 1..(Len(body) - 1) : body[i] = "\\" /\ body[i + 1] = "\n"

\* the StringLiteral for the fixture's whole quoted text, which starts at offset at
WholeString(at) ==
    [type |-> "StringLiteral", value |-> <<"\"">> \o given.body \o <<"\"">>,
     start |-> at, end |-> at + Len(given.body) + 2]

\* C4: a quoted literal in value position with a raw line feed or carriage
\* return before its closing quote makes parse raise; a backslash followed by
\* a line feed inside the quotes is accepted and kept verbatim in the value.
C4_RawNewlineRejectedContinuationKept ==
    pc = "done" =>
        /\ RawNewlineBeforeClose(given.body) => result.status = "thrown"
        /\ (PlainWithContinuations(given.body) /\ HasContinuation(given.body)) =>
              /\ result.status = "returned"
              /\ given.wrap = "bare" => result.value.program = WholeString(0)
              /\ given.wrap = "array" =>
                    result.value.program.elements = <<WholeString(1)>>

\* C4 witness: a body holding an escaped line feed and then a raw one was
\* parsed, and parse raised.
C4_Witness ==
    /\ Thrown
    /\ Len(given.body) = 3
    /\ given.body[1] = "\\" /\ given.body[2] = "\n" /\ given.body[3] = "\n"

----------------------------------------------------------------------------
(* What the fixture wrote, read off the outline *)

\* the last outline position of the value that starts at position i
RECURSIVE CloserFrom(_, _, _)
CloserFrom(o, j, depth) ==
    IF o[j] \in Closers
    THEN IF depth = 1 THEN j ELSE CloserFrom(o, j + 1, depth - 1)
    ELSE IF o[j] \in Openers THEN CloserFrom(o, j + 1, depth + 1)
    ELSE CloserFrom(o, j + 1, depth)

ValueEnd(o, i) == IF o[i] \in Openers THEN CloserFrom(o, i + 1, 1) ELSE i

\* the positions at which the members of a container start, from position j
\* on: its elements, or the keys of its pairs
RECURSIVE MembersFrom(_, _)
MembersFrom(o, j) ==
    IF o[j] \in Closers THEN <<>>
    ELSE <<j>> \o MembersFrom(o, ValueEnd(o, IF o[j] \in KeySyms THEN j + 1 ELSE j) + 1)

NodeTypeOf(sym) ==
    CASE sym = "num" -> "NumericLiteral"
      [] sym = "str" -> "StringLiteral"
      [] sym = "bool" -> "BooleanLiteral"
      [] sym = "null" -> "NullLiteral"

KeyTypeOf(sym) == IF sym = "key-str" THEN TOKEN_STRING ELSE TOKEN_NUMBER

\* the children the text shows: for the value at position i, its type, its
\* lexeme if it is a literal, one entry per element in source order if it is
\* an array, one entry per key:value pair in source order, with the key's
\* kind and lexeme, if it is an object
RECURSIVE WrittenShape(_, _)
WrittenShape(o, i) ==
    IF o[i] = "["
    THEN [type |-> "ArrayLiteral",
          elements |-> [m \in 1..Len(MembersFrom(o, i + 1)) |->
                           WrittenShape(o, MembersFrom(o, i + 1)[m])]]
    ELSE IF o[i] = "{"
    THEN [type |-> "ObjectLiteral",
          properties |-> [m \in 1..Len(MembersFrom(o, i + 1)) |->
                             [type |-> "Property",
                              key |-> [type |-> KeyTypeOf(o[MembersFrom(o, i + 1)[m]]),
                                       value |-> LexemeOf(o[MembersFrom(o, i + 1)[m]])]]]]
    ELSE IF o[i] = "null" THEN [type |-> "NullLiteral"]
    ELSE [type |-> NodeTypeOf(o[i]), value |-> LexemeOf(o[i])]

\* the same of an AST node, spans left out
RECURSIVE Shape(_)
Shape(node) ==
    IF node.type = "ArrayLiteral"
    THEN [type |-> node.type,
          elements |-> [m \in 1..Len(node.elements) |-> Shape(node.elements[m])]]
    ELSE IF node.type = "ObjectLiteral"
    THEN [type |-> node.type,
          properties |-> [m \in 1..Len(node.properties) |->
                             [type |-> node.properties[m].type,
                              key |-> [type |-> node.properties[m].key.type,
                                       value |-> node.properties[m].key.value]]]]
    ELSE IF node.type = "NullLiteral" THEN [type |-> node.type]
    ELSE [type |-> node.type, value |-> node.value]

\* the offset at which the q-th lexeme of the rendered text starts
RECURSIVE LexemeStart(_)
LexemeStart(q) ==
    IF q = 1 THEN 0
    ELSE LexemeStart(q - 1) + Len(given.pieces[q - 1].text) + Len(given.ws)

\* the offsets at which the lexeme of outline position k starts and ends
SymStart(k) == LexemeStart(CHOOSE q \in 1..Len(given.pieces) : given.pieces[q].sym = k)
SymEnd(k) == SymStart(k) + Len(LexemeOf(given.outline[k]))

\* the Property nodes an AST holds, in source order.  The value of a property
\* is not in the AST, so neither are the properties of an object that is one.
RECURSIVE PropertiesOf(_)
PropertiesOf(node) ==
    IF node.type = "ArrayLiteral"
    THEN Concat([m \in 1..Len(node.elements) |-> PropertiesOf(node.elements[m])])
    ELSE IF node.type = "ObjectLiteral" THEN node.properties
    ELSE <<>>

\* the Property node for the pair whose key is at outline position k: the key
\* token, the key's start, and the end of the pair's value, which a null
\* value does not have
WrittenProperty(o, k) ==
    [type |-> "Property",
     key |-> [type |-> KeyTypeOf(o[k]), value |-> LexemeOf(o[k]),
              start |-> SymStart(k), end |-> SymEnd(k)],
     start |-> SymStart(k),
     end |-> IF o[k + 1] = "null" THEN undefinedOffset ELSE SymEnd(ValueEnd(o, k + 1))]

\* the same traversal over the outline
RECURSIVE WrittenProperties(_, _)
WrittenProperties(o, i) ==
    IF o[i] = "["
    THEN Concat([m \in 1..Len(MembersFrom(o, i + 1)) |->
                    WrittenProperties(o, MembersFrom(o, i + 1)[m])])
    ELSE IF o[i] = "{"
    THEN [m \in 1..Len(MembersFrom(o, i + 1)) |->
             WrittenProperty(o, MembersFrom(o, i + 1)[m])]
    ELSE <<>>

\* JavaScript's a <= b on offsets: false when either side is undefined
LessOrEqual(a, b) == a # undefinedOffset /\ b # undefinedOffset /\ a <= b

\* a node carries a span when both its start and its end are set
CarriesSpan(node) == node.start # undefinedOffset /\ node.end # undefinedOffset

\* every node that carries a span has start <= end, and every element and
\* property lies inside its array or object
RECURSIVE WellNested(_)
WellNested(node) ==
    /\ CarriesSpan(node) => node.start <= node.end
    /\ node.type = "ArrayLiteral" =>
          \A m \in 1..Len(node.elements) :
             /\ LessOrEqual(node.start, node.elements[m].start)
             /\ LessOrEqual(node.elements[m].end, node.end)
             /\ WellNested(node.elements[m])
    /\ node.type = "ObjectLiteral" =>
          \A m \in 1..Len(node.properties) :
             /\ LessOrEqual(node.start, node.properties[m].start)
             /\ LessOrEqual(node.properties[m].end, node.end)
             /\ WellNested(node.properties[m])

----------------------------------------------------------------------------
(* Claims about parse *)

\* C5: for every well-formed array or object text, elements holds one node
\* per value in source order and properties one Property per key:value pair
\* in source order, duplicate keys kept, each key token holding the key's
\* kind and its lexeme as written.
C5_ChildrenMirrorSource ==
    pc = "done" =>
        /\ result.status = "returned"
        /\ Shape(result.value.program) = WrittenShape(given.outline, 1)

\* C5 witness: an object written with the same string key twice was parsed
\* into two properties.
C5_Witness ==
    /\ Returned
    /\ given.outline = <<"{", "key-str", "num", "key-str", "null", "}">>
    /\ Len(result.value.program.properties) = 2

\* C6 as stated: in every AST parse returns, a node that carries a span has
\* start <= end, and every element's and property's span lies inside the
\* span of its array or object.
C6_SpansWellNested == Returned => WellNested(result.value.program)

\* C7 as stated: every Property node has only its type tag and its key
\* populated: no value, no start and no end.
C7_AsStated ==
    Returned =>
        \A m \in 1..Len(PropertiesOf(result.value.program)) :
           LET p == PropertiesOf(result.value.program)[m]
           IN  /\ p.type = "Property"
               /\ p.key = WrittenProperties(given.outline, 1)[m].key
               /\ "value" \notin DOMAIN p
               /\ p.start = undefinedOffset
               /\ p.end = undefinedOffset

\* C7 amended: every Property node has its type tag, its key, its start (the
\* key's start) and its end (the end of the property's value, which is
\* undefined when that value is null) populated; it carries no value.
C7_PropertyKeepsKeyAndSpan ==
    Returned =>
        PropertiesOf(result.value.program) = WrittenProperties(given.outline, 1)

\* C7 witness: an array holding an object with a numeric and a null-valued
\* property was parsed.
C7_Witness ==
    /\ Returned
    /\ given.outline = <<"{", "key-num", "[", "]", "key-str", "null", "}">>
    /\ Len(PropertiesOf(result.value.program)) = 2

\* C1 as stated: a complete well-formed value followed by further characters
\* parses to the AST of the leading value, whatever follows.
C1_TrailingInputIgnored ==
    pc = "done" =>
        /\ result.status = "returned"
        /\ Shape(result.value.program) = WrittenShape(given.outline, 1)

\* C9 as stated: an input that ends inside an unclosed array or object fails
\* with ensure's value mismatch or with 'unexpected end of input', never with
\* a fault raised while is() reads the peeked token.
C9_UnclosedFailsAsDocumented ==
    pc = "done" =>
        /\ result.status = "thrown"
        /\ result.error \in {ErrExpected, ErrEndOfInput}

\* the comma style changed the text: it reads neither as the plain nor as the
\* trailing-comma rendering
StyleShows ==
    Texts(given.pieces) \notin {Texts(Render(given.outline, "plain")),
                                Texts(Render(given.outline, "trailing"))}

\* C10: arrays and objects accept one optional trailing comma, which adds no
\* member, and reject a leading comma, two consecutive commas, and two
\* adjacent members with no comma between them.
C10_CommaDiscipline ==
    pc = "done" =>
        IF StyleShows
        THEN result.status = "thrown"
        ELSE /\ result.status = "returned"
             /\ Shape(result.value.program) = WrittenShape(given.outline, 1)

\* C10 witness: [1,] was parsed into an array of one element.
C10_Witness ==
    /\ Returned
    /\ source = <<"[", "1", ",", "]">>
    /\ given.style = "trailing"
    /\ Len(result.value.program.elements) = 1

=============================================================================
